---------------------------- MODULE Spec2Model ----------------------------
(* cloudict/webdict.py: a dict whose missing keys are resolved through    *)
(* key -> url -> response -> value -> post-processing.                    *)
(*                                                                        *)
(* Text (str and the content of bytes) is a sequence of one-character     *)
(* tokens; a multi-line text is a sequence of such lines.  Python values  *)
(* stored in a dict are records tagged by `kind`.                         *)
EXTENDS Integers, Sequences, FiniteSets, TLC

VARIABLES
    remote,          \* the web: url -> bytes a successful urlopen(url).read() yields
    maps,            \* instance -> its attributes (make_url, parse_response, ...), or NoMap
    data,            \* instance -> UserDict.data, the backing mapping
    lru,             \* the lru_cache of _cached_retrieve, least recently used first
    transportCalls,  \* url -> number of urllib.request.urlopen(url) calls issued
    last,            \* what the most recent operation did and gave back
    recent,          \* urls in the order _cached_retrieve last returned their bytes
    threads          \* caller -> where it stands in a getitem run step by step

vars == <<remote, maps, data, lru, transportCalls, last, recent, threads>>

-----------------------------------------------------------------------------
(* Bounds *)

\* rows below the header of a remote table
MaxRows == 3
\* urlopen calls in one behaviour
MaxCalls == 2
\* capacity of the lru_cache (the source sets 65536; scaled to the model's urls)
maxsize == 2

MapIds == {"A", "B"}
TableMapIds == {"A"}

None == <<"None">>
Omitted == <<"Omitted">>

\* keys looked up on point-lookup maps and on table maps
PointKeys == {<<"1">>, <<"2">>}
TableKeys == {<<"1">>, <<"2">>, <<"r", "1">>}

\* lambda s: base + s
Base == <<"h", "/">>
TableUrl == <<"t">>
PointUrls == {Base \o k : k \in PointKeys}
Urls == PointUrls \cup {TableUrl}

-----------------------------------------------------------------------------
(* Values *)

NoValue == [kind |-> "None"]
Bytes(valid, lines) == [kind |-> "bytes", valid |-> valid, lines |-> lines]
Str(lines) == [kind |-> "str", lines |-> lines]
Dict(items) == [kind |-> "dict", items |-> items]

EmptyDict == [k \in {} |-> NoValue]

\* d[k] = v on a plain dict
SetItem(d, k, v) == [x \in (DOMAIN d) \cup {k} |-> IF x = k THEN v ELSE d[x]]


RECURSIVE Join(_, _)
\* sep.join(fields)
Join(fields, sep) ==
    IF Len(fields) = 0 THEN <<>>
    ELSE IF Len(fields) = 1 THEN fields[1]
    ELSE fields[1] \o <<sep>> \o Join(Tail(fields), sep)

RECURSIVE SplitFields(_, _, _)
\* the fields of one line as csv.reader splits it at `delimiter`; cur is the
\* field being read
SplitFields(line, delimiter, cur) ==
    IF Len(line) = 0 THEN <<cur>>
    ELSE IF Head(line) = delimiter
         THEN <<cur>> \o SplitFields(Tail(line), delimiter, <<>>)
         ELSE SplitFields(Tail(line), delimiter, Append(cur, Head(line)))

\* csv.reader gives [] for an empty line
ReadRow(line, delimiter) ==
    IF Len(line) = 0 THEN <<>> ELSE SplitFields(line, delimiter, <<>>)

-----------------------------------------------------------------------------
(* The web *)

Header == << <<"i", "d">>, <<"n">> >>
KeyVals == {<<"1">>, <<"2">>, <<"3">>}
Separators == {",", "\t"}

\* the text of a header-led table written with separator sep: row i holds the
\* id ids[i] and a name of its own, r<i>
TableText(ids, sep) ==
    <<Join(Header, sep)>>
    \o [i \in 1..Len(ids) |-> Join(<<ids[i], <<"r", ToString(i)>> >>, sep)]

TableTexts ==
    UNION {{TableText(ids, sep) : ids \in [1..n -> KeyVals]} :
           n \in 0..MaxRows, sep \in Separators}

\* what the table url may serve: a table, an empty body, or bytes that are not utf-8
TablePayloads ==
    {Bytes(TRUE, t) : t \in TableTexts} \cup {Bytes(TRUE, <<>>), Bytes(FALSE, <<>>)}

\* what a point url serves: key "1" resolves to JSON, every other key to XML
PointPayload(k) ==
    IF k = <<"1">> THEN Bytes(TRUE, << <<"{">> \o k \o <<"}">> >>)
    ELSE Bytes(TRUE, << <<"<">> \o k \o <<">">> >>)

\* how one urlopen(url).read() may end
NetOutcomes == {"ok", "URLError", "ConnectionResetError"}

-----------------------------------------------------------------------------
(* Exceptions *)

\* an exception: its class and what its message is formatted from
Err(type, url, cause, shown, key) ==
    [type |-> type, url |-> url, cause |-> cause, shown |-> shown, key |-> key]

NoError == Err("None", None, "", NoValue, None)

\* the class statements of webdict.py, then the built-in classes the code meets:
\* the direct base of each exception class
BaseOf(type) ==
    CASE type = "UnavailableWebResourceError" -> "WebDictError"
      [] type = "InvalidWebResourceError" -> "WebDictError"
      [] type = "WebDictError" -> "Exception"
      [] type = "KeyError" -> "LookupError"
      [] type = "IndexError" -> "LookupError"
      [] type = "LookupError" -> "Exception"
      [] type = "URLError" -> "OSError"
      [] type = "ConnectionResetError" -> "OSError"
      [] type = "OSError" -> "Exception"
      [] type = "JSONDecodeError" -> "ValueError"
      [] type = "UnicodeDecodeError" -> "ValueError"
      [] type = "ValueError" -> "Exception"
      [] type = "TypeError" -> "Exception"
      [] type = "AttributeError" -> "Exception"
      [] type = "RuntimeError" -> "Exception"
      [] OTHER -> "BaseException"

RECURSIVE IsInstance(_, _)
\* isinstance(e, cls) for an exception of class `type`
IsInstance(type, cls) ==
    IF type = cls THEN TRUE
    ELSE IF type = "BaseException" THEN FALSE
    ELSE IsInstance(BaseOf(type), cls)

\* pformat(data): the printed form of the object
pformat(value) == [kind |-> "pformat", of |-> value]

-----------------------------------------------------------------------------
(* Fetch layer *)

Returned(value) == [ok |-> TRUE, value |-> value, error |-> NoError]
Raised(error) == [ok |-> FALSE, value |-> NoValue, error |-> error]

\* e.reason of a URLError
Reason(net) == "reason of " \o net

\* _retrieve(url): urlopen(url).read() ends as `net` says; only URLError is caught.
\* urlopen(None) raises AttributeError before anything is sent.
\* `sent` tells whether a request went out.
retrieve(url, net) ==
    IF url \notin DOMAIN remote
    THEN [res |-> Raised(Err("AttributeError", url, "", NoValue, None)), sent |-> FALSE]
    ELSE IF net = "ok"
    THEN [res |-> Returned(remote[url]), sent |-> TRUE]
    ELSE IF IsInstance(net, "URLError")
    THEN [res |-> Raised(Err("UnavailableWebResourceError", url, Reason(net), NoValue, None)),
          sent |-> TRUE]
    ELSE [res |-> Raised(Err(net, url, "", NoValue, None)), sent |-> TRUE]

CacheUrls(cache) == {cache[i].url : i \in DOMAIN cache}
CacheIndex(cache, url) == CHOOSE i \in DOMAIN cache : cache[i].url = url
CacheRemove(cache, i) == SubSeq(cache, 1, i - 1) \o SubSeq(cache, i + 1, Len(cache))

\* lru_cache: a new result goes in as the most recently used; a full cache first
\* drops its least recently used entry
CacheInsert(cache, url, value) ==
    LET entry == [url |-> url, value |-> value]
    IN IF Len(cache) >= maxsize THEN Append(Tail(cache), entry) ELSE Append(cache, entry)

\* _cached_retrieve without its cache
cached_retrieve_uncached(cache, url, net) ==
    [res |-> retrieve(url, net).res, sent |-> retrieve(url, net).sent, cache |-> cache]

\* _cached_retrieve under a cache that stores failures too: after _retrieve
\* raised, the url is stored with empty bytes that do not decode
cached_retrieve_memoizing_errors(cache, url, net) ==
    IF url \in CacheUrls(cache)
    THEN [res |-> Returned(cache[CacheIndex(cache, url)].value), sent |-> FALSE,
          cache |-> Append(CacheRemove(cache, CacheIndex(cache, url)),
                           cache[CacheIndex(cache, url)])]
    ELSE [res |-> retrieve(url, net).res, sent |-> retrieve(url, net).sent,
          cache |-> CacheInsert(cache, url,
                                IF retrieve(url, net).res.ok
                                THEN retrieve(url, net).res.value
                                ELSE Bytes(FALSE, <<>>))]

\* _cached_retrieve under a cache that drops its oldest entry: a hit does not
\* count as a use
cached_retrieve_fifo(cache, url, net) ==
    IF url \in CacheUrls(cache)
    THEN [res |-> Returned(cache[CacheIndex(cache, url)].value), sent |-> FALSE,
          cache |-> cache]
    ELSE [res |-> retrieve(url, net).res, sent |-> retrieve(url, net).sent,
          cache |-> IF retrieve(url, net).res.ok
                    THEN CacheInsert(cache, url, retrieve(url, net).res.value)
                    ELSE cache]

\* _cached_retrieve(url) under @lru_cache(maxsize): a hit returns the stored bytes
\* and becomes the most recently used; a miss calls _retrieve and stores what it
\* returns; an exception passes through and stores nothing.
cached_retrieve(cache, url, net) ==
    IF url \in CacheUrls(cache)
    THEN LET i == CacheIndex(cache, url)
         IN [res |-> Returned(cache[i].value), sent |-> FALSE,
             cache |-> Append(CacheRemove(cache, i), cache[i])]
    ELSE LET r == retrieve(url, net)
         IN [res |-> r.res, sent |-> r.sent,
             cache |-> IF r.res.ok THEN CacheInsert(cache, url, r.res.value) ELSE cache]

-----------------------------------------------------------------------------
(* The three injected policies *)

NoMap == [cls |-> "None"]

\* self.make_url(key) raises: url_of_listed is a url_maker that knows the key
\* "1" alone and raises ValueError for any other
make_url_raises(self, key) ==
    maps[self].make_url = "url_of_listed" /\ key # <<"1">>

\* self.make_url(key)
make_url(self, key) ==
    CASE maps[self].make_url = "lambda key: None" -> None
      [] maps[self].make_url = "lambda s: base + s" -> Base \o key
      [] maps[self].make_url = "url_of_listed" -> Base \o key
      [] maps[self].make_url = "lambda _: csv_url" -> maps[self].url

\* json.loads(data): the value of a JSON text, ValueError kinds otherwise
json_loads(bytes) ==
    IF ~bytes.valid THEN Raised(Err("UnicodeDecodeError", None, "", NoValue, None))
    ELSE IF /\ Len(bytes.lines) = 1
            /\ Len(bytes.lines[1]) >= 2
            /\ Head(bytes.lines[1]) = "{"
            /\ bytes.lines[1][Len(bytes.lines[1])] = "}"
    THEN Returned(Dict([f \in {<<"v">>} |->
                        SubSeq(bytes.lines[1], 2, Len(bytes.lines[1]) - 1)]))
    ELSE Raised(Err("JSONDecodeError", None, "", NoValue, None))

\* bytes.decode(data): the text of utf-8 bytes
bytes_decode(bytes) ==
    IF bytes.valid THEN Returned(Str(bytes.lines))
    ELSE Raised(Err("UnicodeDecodeError", None, "", NoValue, None))

\* self.parse_response(data)
parse_response(self, bytes) ==
    CASE maps[self].parse_response = "lambda s: s" -> Returned(bytes)
      [] maps[self].parse_response = "json.loads" -> json_loads(bytes)
      [] maps[self].parse_response = "bytes.decode" -> bytes_decode(bytes)

\* the last position of field name f in fieldnames
LastIndex(fieldnames, f) ==
    CHOOSE i \in DOMAIN fieldnames :
        /\ fieldnames[i] = f
        /\ \A j \in DOMAIN fieldnames : fieldnames[j] = f => j <= i

\* one record of csv.DictReader: dict(zip(fieldnames, row)), the fields a short row
\* lacks set to None, the surplus of a long row kept under the key None
DictReaderRecord(fieldnames, row) ==
    LET names == {fieldnames[i] : i \in DOMAIN fieldnames}
        zipped == {fieldnames[i] : i \in 1..(IF Len(row) < Len(fieldnames)
                                               THEN Len(row) ELSE Len(fieldnames))}
        short == {fieldnames[i] : i \in (Len(row) + 1)..Len(fieldnames)}
        keys == zipped \cup short \cup (IF Len(row) > Len(fieldnames) THEN {None} ELSE {})
    IN [f \in keys |->
          IF f \in short THEN None
          ELSE IF f \in names
          THEN LET n == IF Len(row) < Len(fieldnames) THEN Len(row) ELSE Len(fieldnames)
               IN row[LastIndex(SubSeq(fieldnames, 1, n), f)]
          ELSE SubSeq(row, Len(fieldnames) + 1, Len(row))]

RECURSIVE LoadRecords_first_wins(_, _, _, _)
\* the loop keeping the first record of a key
LoadRecords_first_wins(d, fieldnames, key_field, rows) ==
    IF Len(rows) = 0 THEN d
    ELSE IF Len(Head(rows)) = 0
    THEN LoadRecords_first_wins(d, fieldnames, key_field, Tail(rows))
    ELSE LET record == DictReaderRecord(fieldnames, Head(rows))
         IN LoadRecords_first_wins(
                IF record[key_field] \in DOMAIN d THEN d
                ELSE SetItem(d, record[key_field], Dict(record)),
                fieldnames, key_field, Tail(rows))

RECURSIVE LoadRecords(_, _, _, _)
\* for record in csv_as_list_of_dict: d[record[key_field]] = record
\* (blank rows are skipped by the reader)
LoadRecords(d, fieldnames, key_field, rows) ==
    IF Len(rows) = 0 THEN d
    ELSE IF Len(Head(rows)) = 0 THEN LoadRecords(d, fieldnames, key_field, Tail(rows))
    ELSE LET record == DictReaderRecord(fieldnames, Head(rows))
         IN LoadRecords(SetItem(d, record[key_field], Dict(record)),
                        fieldnames, key_field, Tail(rows))

\* load_lines reading the header line as a record too
load_lines_header_as_record(d, s, delimiter, key_pos) ==
    LET lines == s.lines
        fieldnames == ReadRow(lines[1], delimiter)
        rows == [i \in 1..Len(lines) |-> ReadRow(lines[i], delimiter)]
    IN IF Len(lines) = 0
       THEN Raised(Err("TypeError", None, "", NoValue, None))
       ELSE IF key_pos + 1 > Len(fieldnames)
       THEN Raised(Err("IndexError", None, "", NoValue, None))
       ELSE Returned(LoadRecords(d, fieldnames, fieldnames[key_pos + 1], rows))

\* load_lines(d, _, s) of WebCSV.__init__: the dict after it, or what it raises.
\* fieldnames is None for a text without lines; fieldnames[key_pos] may be out
\* of range.
load_lines(d, s, delimiter, key_pos) ==
    LET lines == s.lines
        fieldnames == ReadRow(lines[1], delimiter)
        rows == [i \in 1..(Len(lines) - 1) |-> ReadRow(lines[i + 1], delimiter)]
    IN IF Len(lines) = 0
       THEN Raised(Err("TypeError", None, "", NoValue, None))
       ELSE IF key_pos + 1 > Len(fieldnames)
       THEN Raised(Err("IndexError", None, "", NoValue, None))
       ELSE Returned(LoadRecords(d, fieldnames, fieldnames[key_pos + 1], rows))

\* the tuple (key, value)
Pair(key, value) == [kind |-> "tuple", items |-> <<key, value>>]

\* a post_processor that is not pure: what it stores depends on what the
\* backing dict holds at key when it runs
post_process_impure(self, d, key, value) ==
    Returned(SetItem(d, key, IF key \in DOMAIN d THEN Pair(key, d[key]) ELSE value))

\* self.post_process(self, key, value): the backing dict after it, or what it raises
post_process(self, d, key, value) ==
    CASE maps[self].post_process = "UserDict.__setitem__" -> Returned(SetItem(d, key, value))
      [] maps[self].post_process = "lambda d, k, v: d.__setitem__(k, (k, v))" ->
            Returned(SetItem(d, key, Pair(key, value)))
      [] maps[self].post_process = "load_lines" ->
            load_lines(d, value, maps[self].delimiter, maps[self].key_pos)

-----------------------------------------------------------------------------
(* WebDict *)

\* what a call gives back when a KeyError undoes what post_process installed
Outcome_rolled_back(res, d, cache, sent, url, stages) ==
    [res |-> res,
     data |-> IF ~res.ok /\ res.error.type = "KeyError" THEN EmptyDict ELSE d,
     cache |-> cache, sent |-> sent, url |-> url, stages |-> stages]

\* what one call gives back: how it ended, and the state it leaves
Outcome(res, d, cache, sent, url, stages) ==
    [res |-> res, data |-> d, cache |-> cache, sent |-> sent, url |-> url,
     stages |-> stages]

\* the parse error passed on as it is
invalid_unwrapped(url, e, bytes) == e

\* the InvalidWebResourceError __missing__ raises for parse error e on `bytes`:
\* 'failed to parse response from {url}: {e}\n{pformat(data)}'
invalid(url, e, bytes) ==
    Err("InvalidWebResourceError", url, e.type, pformat(bytes), None)

\* the end of __missing__ without the test `key not in self`, returning the
\* parsed value
return_unchecked(d, key, value) == Returned(value)

\* the end of __missing__ raising KeyError for something else than the key
check_raising_other_key(d, key, value) ==
    IF key \notin DOMAIN d
    THEN Raised(Err("KeyError", None, "", NoValue, None))
    ELSE Returned(d[key])

\* the end of __missing__ returning the parsed value after the test
return_parsed(d, key, value) ==
    IF key \notin DOMAIN d
    THEN Raised(Err("KeyError", None, "", NoValue, key))
    ELSE Returned(value)

\* the end of __missing__, post_process having left the backing dict d: KeyError
\* if key is not in it, else the value now stored at key
check_and_return(d, key, value) ==
    IF key \notin DOMAIN d
    THEN Raised(Err("KeyError", None, "", NoValue, key))
    ELSE Returned(d[key])

\* the error of make_url raised again as an InvalidWebResourceError
make_url_error_wrapped(key) ==
    Err("InvalidWebResourceError", None, "ValueError", NoValue, None)

\* the ValueError url_of_listed raises for `key`, as it leaves __missing__: the
\* call self.make_url(key) stands in no try statement
make_url_error(key) == Err("ValueError", None, "", NoValue, key)

\* __missing__ storing the fetched bytes at key before it parses them
missing_storing_first(self, key, net) ==
    LET url == make_url(self, key)
        f == IF maps[self].cache_enabled
             THEN cached_retrieve(lru, url, net)
             ELSE [res |-> retrieve(url, net).res, sent |-> retrieve(url, net).sent,
                   cache |-> lru]
        p == parse_response(self, f.res.value)
        stored == SetItem(data[self], key, f.res.value)
    IN IF make_url_raises(self, key)
       THEN Outcome(Raised(make_url_error(key)), data[self], lru, FALSE, None,
                    {"make_url"})
       ELSE IF ~f.res.ok
       THEN Outcome(Raised(f.res.error), data[self], f.cache, f.sent, url,
                    {"make_url", "_retrieve"})
       ELSE IF ~p.ok
       THEN Outcome(Raised(invalid(url, p.error, f.res.value)), stored, f.cache,
                    f.sent, url, {"make_url", "_retrieve", "post_process", "parse_response"})
       ELSE Outcome(Returned(p.value), SetItem(stored, key, p.value), f.cache, f.sent, url,
                    {"make_url", "_retrieve", "post_process", "parse_response",
                     "key in self"})

\* WebDict.__missing__(self, key); net is how the urlopen call ends, if one is made
missing(self, key, net) ==
    LET url == make_url(self, key)
        d == data[self]
        f == IF maps[self].cache_enabled
             THEN cached_retrieve(lru, url, net)
             ELSE [res |-> retrieve(url, net).res, sent |-> retrieve(url, net).sent,
                   cache |-> lru]
        fetched == {"make_url"}
                   \cup (IF maps[self].cache_enabled THEN {"_cached_retrieve"} ELSE {})
                   \cup (IF maps[self].cache_enabled /\ url \in CacheUrls(lru)
                         THEN {} ELSE {"_retrieve"})
        p == parse_response(self, f.res.value)
        parsed == fetched \cup {"parse_response"}
        pp == post_process(self, d, key, p.value)
        processed == parsed \cup {"post_process"}
        checked == processed \cup {"key in self"}
    IN IF make_url_raises(self, key)
       THEN Outcome(Raised(make_url_error(key)), d, lru, FALSE, None, {"make_url"})
       ELSE IF ~f.res.ok
       THEN Outcome(Raised(f.res.error), d, f.cache, f.sent, url, fetched)
       ELSE IF ~p.ok /\ IsInstance(p.error.type, "Exception")
       THEN Outcome(Raised(invalid(url, p.error, f.res.value)),
                    d, f.cache, f.sent, url, parsed)
       ELSE IF ~p.ok
       THEN Outcome(Raised(p.error), d, f.cache, f.sent, url, parsed)
       ELSE IF ~pp.ok
       THEN Outcome(Raised(pp.error), d, f.cache, f.sent, url, processed)
       ELSE Outcome(check_and_return(pp.value, key, p.value),
                    pp.value, f.cache, f.sent, url, checked)

\* getitem without its test for a present key
getitem_always_missing(self, key, net) == missing(self, key, net)

\* UserDict.__getitem__(self, key): self.data[key] if present, else __missing__
getitem(self, key, net) ==
    IF key \in DOMAIN data[self]
    THEN Outcome(Returned(data[self][key]), data[self], lru, FALSE, None, {})
    ELSE missing(self, key, net)

\* the record of an operation: what was asked (op, self, key, the url_maker
\* argument of a constructor), how the urlopen call it made ended (net), how it
\* ended, the url and the stages it went through, and, for a getitem that comes
\* right after a getitem of the same key on the same map which returned, what
\* that one returned and went through
Last(op, self, key, url_maker, net, o, again, before, beforeStages) ==
    [op |-> op, self |-> self, key |-> key, url_maker |-> url_maker,
     net |-> IF o.sent THEN net ELSE "", ok |-> o.res.ok, value |-> o.res.value,
     error |-> o.res.error, url |-> o.url, sent |-> o.sent, stages |-> o.stages,
     again |-> again, before |-> before, beforeStages |-> beforeStages]

Constructed(op, self, url_maker) ==
    Last(op, self, None, url_maker, "",
         Outcome(Returned(NoValue), EmptyDict, lru, FALSE, None, {}),
         FALSE, NoValue, {})

\* key in d the way the Mapping mixin does it: try self[key], False on KeyError
contains_via_getitem(self, key) ==
    LET o == getitem(self, key, "ok")
    IN IF o.res.ok \/ o.res.error.type = "KeyError"
       THEN [o EXCEPT !.res = Returned([kind |-> "bool", b |-> o.res.ok])]
       ELSE o

\* key in d: UserDict.__contains__ looks in self.data and nowhere else
contains(self, key) ==
    Outcome(Returned([kind |-> "bool", b |-> key \in DOMAIN data[self]]),
            data[self], lru, FALSE, None, {})

\* iter(d), d.keys(): the keys of self.data (their order is left out)
keys(self) ==
    Outcome(Returned([kind |-> "keys", keys |-> DOMAIN data[self]]),
            data[self], lru, FALSE, None, {})

\* len(d): len(self.data)
len(self) ==
    Outcome(Returned([kind |-> "int", n |-> Cardinality(DOMAIN data[self])]),
            data[self], lru, FALSE, None, {})

\* what a call that reads the map leaves behind
Query(op, self, key, o) ==
    /\ o.sent => transportCalls[o.url] < MaxCalls
    /\ data' = [data EXCEPT ![self] = o.data]
    /\ lru' = o.cache
    /\ transportCalls' = IF o.sent THEN [transportCalls EXCEPT ![o.url] = @ + 1]
                         ELSE transportCalls
    /\ last' = Last(op, self, key, "", "ok", o, FALSE, NoValue, {})
    /\ UNCHANGED <<remote, maps, recent, threads>>

\* b = key in d
Contains(self, key) ==
    /\ maps[self] # NoMap
    /\ \E o \in {contains(self, key)} : Query("contains", self, key, o)

\* ks = list(d)
Keys(self) ==
    /\ maps[self] # NoMap
    /\ \E o \in {keys(self)} : Query("keys", self, None, o)

\* n = len(d)
Length(self) ==
    /\ maps[self] # NoMap
    /\ \E o \in {len(self)} : Query("len", self, None, o)

\* the order of use after url was used: url is the latest
Touch(order, url) ==
    SelectSeq(order, LAMBDA u : u # url) \o <<url>>

\* value = d[key]
Get(self, key, net) ==
    /\ maps[self] # NoMap
    /\ \E o \in {getitem(self, key, net)} :
       LET again == last.op = "getitem" /\ last.self = self /\ last.key = key /\ last.ok
       IN /\ o.sent => transportCalls[o.url] < MaxCalls
          /\ data' = [data EXCEPT ![self] = o.data]
          /\ lru' = o.cache
          /\ transportCalls' = IF o.sent
                               THEN [transportCalls EXCEPT ![o.url] = @ + 1]
                               ELSE transportCalls
          /\ last' = Last("getitem", self, key, "", net, o, again,
                          IF again THEN last.value ELSE NoValue,
                          IF again THEN last.stages ELSE {})
          /\ recent' = IF {"_cached_retrieve", "parse_response"} \subseteq o.stages
                       THEN Touch(recent, o.url) ELSE recent
    /\ UNCHANGED <<remote, maps, threads>>

\* data = _cached_retrieve(url)
Fetch(url, net) ==
    \E f \in {cached_retrieve(lru, url, net)} :
       /\ f.sent => transportCalls[url] < MaxCalls
       /\ lru' = f.cache
       /\ transportCalls' = IF f.sent THEN [transportCalls EXCEPT ![url] = @ + 1]
                            ELSE transportCalls
       /\ recent' = IF f.res.ok THEN Touch(recent, url) ELSE recent
       /\ last' = Last("_cached_retrieve", None, None, "", net,
                       Outcome(f.res, EmptyDict, f.cache, f.sent, url,
                               IF f.sent THEN {"_cached_retrieve", "_retrieve"}
                               ELSE {"_cached_retrieve"}),
                       FALSE, NoValue, {})
       /\ UNCHANGED <<remote, maps, data, threads>>

Callers == {"t1", "t2"}

\* a caller that has not called yet
Idle == [pc |-> "idle", self |-> None, key |-> None, url |-> None,
         bytes |-> NoValue, value |-> NoValue, res |-> Returned(NoValue),
         stages |-> {}]

\* caller t moves on: its frame becomes `frame`, the rest is as the step says
Step(t, frame) ==
    /\ threads' = [threads EXCEPT ![t] = frame]
    /\ UNCHANGED <<remote, maps, last, recent>>

\* caller t is back from d[key] with `res`
Done(t, res) == [threads[t] EXCEPT !.pc = "done", !.res = res]

\* caller t starts value = d[key]
Call(t, self, key) ==
    /\ threads[t].pc = "idle"
    /\ maps[self] # NoMap
    /\ Step(t, [threads[t] EXCEPT !.pc = "__getitem__", !.self = self, !.key = key])
    /\ UNCHANGED <<data, lru, transportCalls>>

\* UserDict.__getitem__: self.data[key] if present, else into __missing__
Lookup(t) ==
    LET th == threads[t]
    IN /\ th.pc = "__getitem__"
       /\ Step(t, IF th.key \in DOMAIN data[th.self]
                  THEN Done(t, Returned(data[th.self][th.key]))
                  ELSE [th EXCEPT !.pc = "make_url"])
       /\ UNCHANGED <<data, lru, transportCalls>>

\* url = self.make_url(key)
MakeUrl(t) ==
    LET th == threads[t]
    IN /\ th.pc = "make_url"
       /\ Step(t, IF make_url_raises(th.self, th.key)
                  THEN [Done(t, Raised(make_url_error(th.key)))
                           EXCEPT !.stages = @ \cup {"make_url"}]
                  ELSE [th EXCEPT !.pc = "retrieve", !.url = make_url(th.self, th.key),
                                  !.stages = @ \cup {"make_url"}])
       /\ UNCHANGED <<data, lru, transportCalls>>

\* the call of _cached_retrieve or _retrieve: a url in the fetch cache gives its
\* bytes at once, any other goes on to urlopen
Retrieve(t) ==
    LET th == threads[t]
        hit == maps[th.self].cache_enabled /\ th.url \in CacheUrls(lru)
        f == cached_retrieve(lru, th.url, "ok")
    IN /\ th.pc = "retrieve"
       /\ Step(t, IF hit
                  THEN [th EXCEPT !.pc = "parse_response", !.bytes = f.res.value,
                                  !.stages = @ \cup {"_cached_retrieve"}]
                  ELSE [th EXCEPT !.pc = "urlopen",
                                  !.stages = @ \cup (IF maps[th.self].cache_enabled
                                                     THEN {"_cached_retrieve"} ELSE {})])
       /\ lru' = IF hit THEN f.cache ELSE lru
       /\ UNCHANGED <<data, transportCalls>>

\* urlopen(url).read() is back; lru_cache stores the bytes unless another caller
\* has stored the url meanwhile
Urlopen(t) ==
    LET th == threads[t]
        r == retrieve(th.url, "ok")
    IN /\ th.pc = "urlopen"
       /\ r.sent => transportCalls[th.url] < MaxCalls
       /\ Step(t, IF r.res.ok
                  THEN [th EXCEPT !.pc = "parse_response", !.bytes = r.res.value,
                                  !.stages = @ \cup {"_retrieve"}]
                  ELSE [Done(t, Raised(r.res.error))
                           EXCEPT !.stages = @ \cup {"_retrieve"}])
       /\ transportCalls' = IF r.sent THEN [transportCalls EXCEPT ![th.url] = @ + 1]
                            ELSE transportCalls
       /\ lru' = IF /\ r.res.ok
                    /\ maps[th.self].cache_enabled
                    /\ th.url \notin CacheUrls(lru)
                 THEN CacheInsert(lru, th.url, r.res.value)
                 ELSE lru
       /\ UNCHANGED data

\* value = self.parse_response(data), an Exception raised again as
\* InvalidWebResourceError
Parse(t) ==
    LET th == threads[t]
        p == parse_response(th.self, th.bytes)
    IN /\ th.pc = "parse_response"
       /\ Step(t, IF p.ok
                  THEN [th EXCEPT !.pc = "post_process", !.value = p.value,
                                  !.stages = @ \cup {"parse_response"}]
                  ELSE [Done(t, Raised(IF IsInstance(p.error.type, "Exception")
                                       THEN invalid(th.url, p.error, th.bytes)
                                       ELSE p.error))
                           EXCEPT !.stages = @ \cup {"parse_response"}])
       /\ UNCHANGED <<data, lru, transportCalls>>

\* self.post_process(self, key, value)
PostProcess(t) ==
    LET th == threads[t]
        pp == post_process(th.self, data[th.self], th.key, th.value)
    IN /\ th.pc = "post_process"
       /\ Step(t, IF pp.ok
                  THEN [th EXCEPT !.pc = "key in self",
                                  !.stages = @ \cup {"post_process"}]
                  ELSE [Done(t, Raised(pp.error))
                           EXCEPT !.stages = @ \cup {"post_process"}])
       /\ data' = IF pp.ok THEN [data EXCEPT ![th.self] = pp.value] ELSE data
       /\ UNCHANGED <<lru, transportCalls>>

\* if key not in self: raise KeyError(key); return self[key]
Check(t) ==
    LET th == threads[t]
    IN /\ th.pc = "key in self"
       /\ Step(t, [Done(t, check_and_return(data[th.self], th.key, th.value))
                      EXCEPT !.stages = @ \cup {"key in self"}])
       /\ UNCHANGED <<data, lru, transportCalls>>

UrlMakerArgs == {"Omitted", "None", "lambda s: base + s"}
ResponseProcessorArgs == {"Omitted", "json.loads"}
PostProcessorArgs == {"Omitted"}
CacheArgs == {"Omitted", "False"}

\* the attributes of a map that caches whatever its cache argument says
Attributes_caching(cls, url_maker, response_processor, post_processor, cache) ==
    [cls |-> cls,
     make_url |-> IF url_maker = "Omitted" THEN "lambda key: None" ELSE url_maker,
     parse_response |-> IF response_processor = "Omitted" THEN "lambda s: s"
                        ELSE response_processor,
     post_process |-> IF post_processor = "Omitted" THEN "UserDict.__setitem__"
                      ELSE post_processor,
     cache_enabled |-> TRUE,
     url |-> None, delimiter |-> "", key_pos |-> 0]

\* the attributes WebDict.__init__ sets, an omitted argument taking its default
Attributes(cls, url_maker, response_processor, post_processor, cache) ==
    [cls |-> cls,
     make_url |-> IF url_maker = "Omitted" THEN "lambda key: None" ELSE url_maker,
     parse_response |-> IF response_processor = "Omitted" THEN "lambda s: s"
                        ELSE response_processor,
     post_process |-> IF post_processor = "Omitted" THEN "UserDict.__setitem__"
                      ELSE post_processor,
     cache_enabled |-> IF cache = "Omitted" THEN TRUE ELSE cache = "True",
     url |-> None, delimiter |-> "", key_pos |-> 0]

\* WebDict.__init__ raises when url_maker is None
init_raises(url_maker) == url_maker = "None"

\* self = WebDict(url_maker, response_processor, post_processor, cache)
WebDict__init__(self, url_maker, response_processor, post_processor, cache) ==
    /\ maps[self] = NoMap
    /\ IF init_raises(url_maker)
       THEN /\ last' = Last("WebDict", self, None, url_maker, "",
                            Outcome(Raised(Err("RuntimeError", None, "", NoValue, None)),
                                    EmptyDict, lru, FALSE, None, {}),
                            FALSE, NoValue, {})
            /\ UNCHANGED <<maps, data>>
       ELSE /\ maps' = [maps EXCEPT ![self] =
                          Attributes("WebDict", url_maker, response_processor,
                                     post_processor, cache)]
            /\ data' = [data EXCEPT ![self] = EmptyDict]
            /\ last' = Constructed("WebDict", self, url_maker)
    /\ UNCHANGED <<remote, lru, transportCalls, recent, threads>>

DelimiterArgs == {"Omitted", "\t"}
KeyPosArgs == {"Omitted", "1"}

\* self = WebCSV(csv_url, delimiter, key_pos)
WebCSV__init__(self, csv_url, delimiter, key_pos) ==
    /\ maps[self] = NoMap
    /\ maps' = [maps EXCEPT ![self] =
                  [Attributes("WebCSV", "lambda _: csv_url", "bytes.decode", "load_lines",
                              "False")
                   EXCEPT !.url = csv_url,
                          !.delimiter = IF delimiter = "Omitted" THEN "," ELSE delimiter,
                          !.key_pos = IF key_pos = "Omitted" THEN 0 ELSE 1]]
    /\ data' = [data EXCEPT ![self] = EmptyDict]
    /\ last' = Constructed("WebCSV", self, "lambda _: csv_url")
    /\ UNCHANGED <<remote, lru, transportCalls, recent, threads>>

\* self = WebTSV(tsv_url, key_pos)
WebTSV__init__(self, tsv_url, key_pos) ==
    /\ maps[self] = NoMap
    /\ maps' = [maps EXCEPT ![self] =
                  [Attributes("WebTSV", "lambda _: csv_url", "bytes.decode", "load_lines",
                              "False")
                   EXCEPT !.url = tsv_url,
                          !.delimiter = "\t",
                          !.key_pos = IF key_pos = "Omitted" THEN 0 ELSE 1]]
    /\ data' = [data EXCEPT ![self] = EmptyDict]
    /\ last' = Constructed("WebTSV", self, "lambda _: csv_url")
    /\ UNCHANGED <<remote, lru, transportCalls, recent, threads>>

-----------------------------------------------------------------------------
(* Specifications *)

Web(table) ==
    [u \in Urls |-> IF u = TableUrl THEN table
                    ELSE PointPayload(SubSeq(u, Len(Base) + 1, Len(u)))]

Start ==
    /\ maps = [m \in MapIds |-> NoMap]
    /\ data = [m \in MapIds |-> EmptyDict]
    /\ lru = <<>>
    /\ transportCalls = [u \in Urls |-> 0]
    /\ last = Constructed("import", None, "")
    /\ recent = <<>>
    /\ threads = [t \in Callers |-> Idle]

\* point lookups: WebDict instances over the same web, sharing the fetch cache
Init ==
    /\ remote = Web(Bytes(TRUE, TableText(<<>>, ",")))
    /\ Start

Next ==
    \/ \E self \in MapIds, url_maker \in UrlMakerArgs,
          response_processor \in ResponseProcessorArgs,
          post_processor \in PostProcessorArgs, cache \in CacheArgs :
          WebDict__init__(self, url_maker, response_processor, post_processor, cache)
    \/ \E self \in MapIds, key \in PointKeys, net \in NetOutcomes : Get(self, key, net)

Spec == Init /\ [][Next]_vars

\* table lookups: one WebCSV or WebTSV over a table the web serves
InitTable ==
    /\ remote \in {Web(table) : table \in TablePayloads}
    /\ Start

NextTable ==
    \/ \E self \in TableMapIds, delimiter \in DelimiterArgs, key_pos \in KeyPosArgs :
          WebCSV__init__(self, TableUrl, delimiter, key_pos)
    \/ \E self \in TableMapIds, key_pos \in KeyPosArgs :
          WebTSV__init__(self, TableUrl, key_pos)
    \/ \E self \in TableMapIds, key \in TableKeys, net \in NetOutcomes : Get(self, key, net)

SpecTable == InitTable /\ [][NextTable]_vars

\* one WebDict with every kind of policy
OneMapIds == {"A"}
UrlMakerArgsOne == UrlMakerArgs \cup {"url_of_listed"}
PostProcessorArgsOne ==
    PostProcessorArgs \cup {"lambda d, k, v: d.__setitem__(k, (k, v))"}

NextOne ==
    \/ \E self \in OneMapIds, url_maker \in UrlMakerArgsOne,
          response_processor \in ResponseProcessorArgs,
          post_processor \in PostProcessorArgsOne, cache \in CacheArgs :
          WebDict__init__(self, url_maker, response_processor, post_processor, cache)
    \/ \E self \in OneMapIds, key \in PointKeys, net \in NetOutcomes : Get(self, key, net)

SpecOne == Init /\ [][NextOne]_vars

\* one WebDict that is looked up and read
NextRead ==
    \/ \E self \in OneMapIds, url_maker \in UrlMakerArgs,
          response_processor \in ResponseProcessorArgs,
          post_processor \in PostProcessorArgs, cache \in CacheArgs :
          WebDict__init__(self, url_maker, response_processor, post_processor, cache)
    \/ \E self \in OneMapIds, key \in PointKeys, net \in NetOutcomes : Get(self, key, net)
    \/ \E self \in OneMapIds, key \in PointKeys : Contains(self, key)
    \/ \E self \in OneMapIds : Keys(self)
    \/ \E self \in OneMapIds : Length(self)

SpecRead == Init /\ [][NextRead]_vars

\* the fetch cache alone: calls of _cached_retrieve
NextFetch == \E url \in Urls, net \in NetOutcomes : Fetch(url, net)

SpecFetch == Init /\ [][NextFetch]_vars

\* two callers of one WebDict, one d[key] each, their steps interleaved; every
\* urlopen call returns what the web serves
NextThreads ==
    \/ \E self \in OneMapIds, url_maker \in UrlMakerArgs,
          response_processor \in ResponseProcessorArgs,
          post_processor \in PostProcessorArgsOne, cache \in CacheArgs :
          WebDict__init__(self, url_maker, response_processor, post_processor, cache)
    \/ \E t \in Callers, self \in OneMapIds, key \in PointKeys : Call(t, self, key)
    \/ \E t \in Callers : Lookup(t)
    \/ \E t \in Callers : MakeUrl(t)
    \/ \E t \in Callers : Retrieve(t)
    \/ \E t \in Callers : Urlopen(t)
    \/ \E t \in Callers : Parse(t)
    \/ \E t \in Callers : PostProcess(t)
    \/ \E t \in Callers : Check(t)

SpecThreads == Init /\ [][NextThreads]_vars

-----------------------------------------------------------------------------
(* Properties of the point-lookup pipeline *)

IsGet == last.op = "getitem"
Pipeline == {"make_url", "_cached_retrieve", "_retrieve", "parse_response",
             "post_process", "key in self"}

\* C1: a getitem of a key the backing dict already holds returns the stored value,
\* goes through no stage of the pipeline, and leaves every backing dict, the
\* fetch cache and the count of urlopen calls as they were.
C1_FastPath ==
    [][(last'.op = "getitem" /\ last'.key \in DOMAIN data[last'.self]) =>
          /\ last'.ok
          /\ last'.value = data[last'.self][last'.key]
          /\ last'.stages \cap Pipeline = {}
          /\ ~last'.sent
          /\ data' = data
          /\ lru' = lru
          /\ transportCalls' = transportCalls]_vars

\* a getitem took the fast path after some urlopen call had been made
C1_Witness ==
    /\ IsGet /\ last.ok /\ last.stages = {}
    /\ last.key \in DOMAIN data[last.self]
    /\ \E u \in Urls : transportCalls[u] > 0

\* C3: when the urlopen call of a getitem fails, whatever the failure, the
\* getitem raises UnavailableWebResourceError naming the url, and neither
\* parse_response nor post_process runs.
C3_FetchFailure ==
    (IsGet /\ last.sent /\ last.net # "ok") =>
        /\ ~last.ok
        /\ last.error.type = "UnavailableWebResourceError"
        /\ last.error.url = last.url
        /\ last.stages \cap {"parse_response", "post_process"} = {}

\* C4: when parse_response raises on the fetched bytes, the getitem raises
\* InvalidWebResourceError carrying the url, the parse error and the printed
\* bytes, and post_process does not run.
C4_ParseFailure ==
    (/\ IsGet
     /\ "parse_response" \in last.stages
     /\ ~parse_response(last.self, remote[last.url]).ok) =>
        /\ ~last.ok
        /\ last.error.type = "InvalidWebResourceError"
        /\ last.error.url = last.url
        /\ last.error.cause = parse_response(last.self, remote[last.url]).error.type
        /\ last.error.shown = pformat(remote[last.url])
        /\ "post_process" \notin last.stages

\* json.loads failed on the XML a url served
C4_Witness ==
    /\ IsGet /\ last.error.type = "InvalidWebResourceError"
    /\ last.error.cause = "JSONDecodeError"
    /\ "parse_response" \in last.stages

\* C9 as stated: with caching enabled on two maps that make the same urls, no
\* url sees more than one urlopen call.
C9_AtMostOneCall ==
    (\A m \in MapIds : /\ maps[m] # NoMap
                       /\ maps[m].cache_enabled
                       /\ maps[m].make_url = "lambda s: base + s") =>
        \A u \in Urls : transportCalls[u] <= 1

\* C9, amended: on a map with caching enabled, a urlopen call that succeeds puts
\* the url in the shared fetch cache, and a getitem whose url is in the fetch
\* cache makes no urlopen call and does not reach _retrieve, whichever map
\* fetched it.
C9_CacheReuse ==
    [][(last'.op = "getitem" /\ maps[last'.self].cache_enabled) =>
          /\ (last'.sent /\ last'.net = "ok") => last'.url \in CacheUrls(lru')
          /\ last'.url \in CacheUrls(lru) =>
                /\ ~last'.sent
                /\ "_retrieve" \notin last'.stages
                /\ transportCalls' = transportCalls]_vars

\* map B resolved a key from bytes map A had fetched: one urlopen call in all
C9_Witness ==
    /\ IsGet /\ last.self = "B" /\ last.ok
    /\ "_cached_retrieve" \in last.stages /\ "_retrieve" \notin last.stages
    /\ maps["A"] # NoMap /\ maps["A"].cache_enabled
    /\ last.key \in DOMAIN data["A"]
    /\ transportCalls[last.url] = 1

\* C10: WebDict constructed without a url_maker raises and gives no instance.
C10_UrlMakerRequired ==
    (last.op = "WebDict" /\ last.url_maker = "Omitted") =>
        /\ ~last.ok
        /\ maps[last.self] = NoMap

-----------------------------------------------------------------------------
(* Properties of the table maps *)

\* the table as the map's delimiter splits it: field names, then rows
TableOf(self) ==
    LET lines == remote[maps[self].url].lines
    IN [i \in 1..Len(lines) |-> ReadRow(lines[i], maps[self].delimiter)]

\* the values in the key column of the rows of the table
KeyColumn(self) ==
    {TableOf(self)[i][maps[self].key_pos + 1] : i \in 2..Len(TableOf(self))}

\* the last row of the table holding key k in the key column
LastRowOf(self, k) ==
    CHOOSE i \in 2..Len(TableOf(self)) :
        /\ TableOf(self)[i][maps[self].key_pos + 1] = k
        /\ \A j \in 2..Len(TableOf(self)) :
              TableOf(self)[j][maps[self].key_pos + 1] = k => j <= i

\* post_process ran to its end in the last getitem
Distributed == IsGet /\ "key in self" \in last.stages

C5_PostCondition ==
    IsGet =>
        /\ (Distributed /\ last.key \notin DOMAIN data[last.self]) =>
               /\ ~last.ok
               /\ last.error.type = "KeyError"
               /\ last.error.key = last.key
        /\ last.ok =>
               /\ last.key \in DOMAIN data[last.self]
               /\ last.value = data[last.self][last.key]

\* a table was fetched, decoded and loaded, and has no row for the key
C5_Witness ==
    /\ Distributed /\ last.sent /\ last.net = "ok"
    /\ last.error.type = "KeyError"
    /\ DOMAIN data[last.self] # {}
    /\ last.key \notin DOMAIN data[last.self]

\* C6: a getitem that fails once it has a url fails with one of
\* UnavailableWebResourceError, InvalidWebResourceError and KeyError, and each
\* of the three is a WebDictError.
C6_Taxonomy ==
    (IsGet /\ ~last.ok) =>
        /\ last.error.type \in {"UnavailableWebResourceError",
                                "InvalidWebResourceError", "KeyError"}
        /\ IsInstance(last.error.type, "WebDictError")

\* C7: after a getitem that loaded the table returns, the backing dict holds
\* exactly one entry for each distinct value of the key column, and a getitem
\* of any row's key returns without a urlopen call.
C7_TableFlood ==
    (Distributed /\ last.ok) =>
        /\ DOMAIN data[last.self] = KeyColumn(last.self)
        /\ Cardinality(DOMAIN data[last.self]) = Cardinality(KeyColumn(last.self))
        /\ \A k \in KeyColumn(last.self), net \in NetOutcomes :
              /\ getitem(last.self, k, net).res.ok
              /\ ~getitem(last.self, k, net).sent
              /\ getitem(last.self, k, net).stages = {}

\* one getitem loaded a table of three rows with three distinct keys
C7_Witness ==
    /\ Distributed /\ last.ok
    /\ Len(TableOf(last.self)) = 4
    /\ Cardinality(DOMAIN data[last.self]) = 3
    /\ transportCalls[TableUrl] = 1

\* C8: after a load, each value of the key column has one entry, the record of
\* the last row holding it: every field name of the header mapped to that
\* row's field.
C8_LastRowWins ==
    Distributed =>
        \A k \in KeyColumn(last.self) :
            /\ k \in DOMAIN data[last.self]
            /\ data[last.self][k] =
                  Dict([f \in {TableOf(last.self)[1][c] :
                                  c \in DOMAIN TableOf(last.self)[1]} |->
                        LET c == CHOOSE c \in DOMAIN TableOf(last.self)[1] :
                                     TableOf(last.self)[1][c] = f
                        IN TableOf(last.self)[LastRowOf(last.self, k)][c]])

\* the table loaded has two rows with the same key
C8_Witness ==
    /\ Distributed /\ last.ok
    /\ \E i, j \in 2..Len(TableOf(last.self)) :
          /\ i < j
          /\ TableOf(last.self)[i][maps[last.self].key_pos + 1] = last.key
          /\ TableOf(last.self)[j][maps[last.self].key_pos + 1] = last.key

-----------------------------------------------------------------------------
(* Properties of reading a map *)

\* C11: key in d, iteration over d and len(d) tell what the backing dict holds
\* now, for present and absent keys alike, go through no stage of the
\* pipeline, and leave the backing dicts, the fetch cache and the count of
\* urlopen calls as they were.
C11_ReadOnly ==
    [][(last'.op \in {"contains", "keys", "len"}) =>
          /\ last'.ok
          /\ last'.op = "contains" =>
                last'.value.b = (last'.key \in DOMAIN data[last'.self])
          /\ last'.op = "keys" => last'.value.keys = DOMAIN data[last'.self]
          /\ last'.op = "len" => last'.value.n = Cardinality(DOMAIN data[last'.self])
          /\ last'.stages = {}
          /\ ~last'.sent
          /\ data' = data
          /\ lru' = lru
          /\ transportCalls' = transportCalls]_vars

\* an absent key was asked of a map that holds another key
C11_Witness ==
    /\ last.op = "contains"
    /\ ~last.value.b
    /\ data[last.self] # EmptyDict
    /\ last.key \notin DOMAIN data[last.self]

-----------------------------------------------------------------------------
(* Properties of the errors of a lookup *)

\* C12: on a map built with a url_maker that returns a url, the default
\* response_processor (which returns the bytes it is given) and the default
\* post_processor (UserDict.__setitem__), no getitem raises KeyError: a getitem
\* returns a value or raises UnavailableWebResourceError.
C12_NotFoundDistinction ==
    (/\ IsGet
     /\ maps[last.self].make_url = "lambda s: base + s"
     /\ maps[last.self].parse_response = "lambda s: s"
     /\ maps[last.self].post_process = "UserDict.__setitem__") =>
        /\ last.error.type # "KeyError"
        /\ last.ok \/ last.error.type = "UnavailableWebResourceError"

\* C13: when self.make_url(key) raises during the getitem of an absent key, the
\* getitem raises that very error, which is no WebDictError; nothing is
\* fetched, parsed or post-processed, and the backing dicts, the fetch cache and
\* the count of urlopen calls are as they were.
C13_UrlMakerFailure ==
    [][(/\ last'.op = "getitem"
        /\ last'.key \notin DOMAIN data[last'.self]
        /\ maps[last'.self].make_url = "url_of_listed"
        /\ last'.key # <<"1">>) =>
          /\ ~last'.ok
          /\ last'.error = Err("ValueError", None, "", NoValue, last'.key)
          /\ ~IsInstance(last'.error.type, "WebDictError")
          /\ last'.stages = {"make_url"}
          /\ ~last'.sent
          /\ data' = data
          /\ lru' = lru
          /\ transportCalls' = transportCalls]_vars

\* a url_maker that raised for one key after it had returned a url for another,
\* the fetch cache holding that url
C13_Witness ==
    /\ IsGet
    /\ maps[last.self].make_url = "url_of_listed"
    /\ last.key # <<"1">>
    /\ last.error.type = "ValueError"
    /\ data[last.self] # EmptyDict
    /\ lru # <<>>

-----------------------------------------------------------------------------
(* Properties of the fetch cache *)

\* the urls used by calls of _cached_retrieve that returned, the `n` latest
Latest(n) ==
    {recent[i] : i \in {j \in DOMAIN recent : j > Len(recent) - n}}

\* C14: the fetch cache never holds more than maxsize urls, and holds the
\* maxsize most recently used ones, a hit counting as a use: what an insertion
\* into a full cache drops is the least recently used url. A call of
\* _cached_retrieve for a url in the cache returns the bytes stored for it and
\* makes no urlopen call.
C14_CacheBound ==
    /\ [](/\ Len(lru) <= maxsize
          /\ Cardinality(CacheUrls(lru)) = Len(lru)
          /\ CacheUrls(lru) = Latest(maxsize))
    /\ [][(last'.op = "_cached_retrieve" /\ last'.url \in CacheUrls(lru)) =>
             /\ last'.ok
             /\ last'.value = lru[CacheIndex(lru, last'.url)].value
             /\ last'.value = remote[last'.url]
             /\ ~last'.sent
             /\ transportCalls' = transportCalls
             /\ CacheUrls(lru') = CacheUrls(lru)]_vars

\* a url dropped from the full cache was fetched again by a second urlopen call,
\* which dropped another url
C14_Witness ==
    /\ last.op = "_cached_retrieve"
    /\ last.ok
    /\ last.sent
    /\ transportCalls[last.url] = 2
    /\ Len(lru) = maxsize
    /\ Len(recent) > maxsize

-----------------------------------------------------------------------------
(* Properties of concurrent lookups *)

\* the two callers are back from d[key] for the same key of the same map
BothDone ==
    /\ \A t \in Callers : threads[t].pc = "done"
    /\ threads["t1"].self = threads["t2"].self
    /\ threads["t1"].key = threads["t2"].key

\* what one d[key] on the new map stores at key when it returns
Stored(self, key) ==
    LET value == parse_response(self, remote[Base \o key]).value
    IN IF maps[self].post_process = "UserDict.__setitem__" THEN value
       ELSE Pair(key, value)

\* C15: two callers run d[key] for the same key of a new map, their steps
\* interleaved in any way, every urlopen call returning what the web serves, the
\* response_processor and the post_processor pure. When both are back they
\* have the same result, and the backing dict is what one d[key] alone leaves:
\* the value stored at key and nothing else when they returned it, the empty dict
\* when they raised.
C15_ConcurrentFirstLookups ==
    BothDone =>
        LET self == threads["t1"].self
            key == threads["t1"].key
            res == threads["t1"].res
        IN /\ threads["t2"].res = res
           /\ res.ok => /\ res.value = Stored(self, key)
                        /\ data[self] = SetItem(EmptyDict, key, res.value)
           /\ ~res.ok => /\ data[self] = EmptyDict
                         /\ res.error.type \in {"AttributeError", "InvalidWebResourceError"}

\* both callers went through the whole of __missing__ on a caching map: two
\* urlopen calls for the one url, two parses, two post-processes
C15_Witness ==
    /\ BothDone
    /\ maps[threads["t1"].self].cache_enabled
    /\ \A t \in Callers :
          /\ threads[t].res.ok
          /\ {"_cached_retrieve", "_retrieve", "parse_response", "post_process",
              "key in self"} \subseteq threads[t].stages
    /\ transportCalls[threads["t1"].url] = 2

-----------------------------------------------------------------------------
(* Properties of the value a lookup returns *)

\* C16: a getitem that went through __missing__ and returned gives the value
\* the backing dict holds at key after post_process ran; with the post_processor
\* that stores the tuple (key, value), it returns that tuple and not the value
\* parse_response returned.
C16_ReturnsStored ==
    (Distributed /\ last.ok) =>
        /\ last.key \in DOMAIN data[last.self]
        /\ last.value = data[last.self][last.key]
        /\ maps[last.self].post_process = "lambda d, k, v: d.__setitem__(k, (k, v))" =>
              LET value == parse_response(last.self, remote[last.url]).value
              IN /\ last.value = Pair(last.key, value)
                 /\ last.value # value

\* a getitem returned under the post_processor that stores the tuple
C16_Witness ==
    /\ Distributed
    /\ last.ok
    /\ maps[last.self].post_process = "lambda d, k, v: d.__setitem__(k, (k, v))"
    /\ last.value.kind = "tuple"

-----------------------------------------------------------------------------
(* Properties of the table maps' fetches *)

\* C17: on a WebCSV or WebTSV, a getitem of a key the backing dict does not
\* hold makes exactly one urlopen call, for the table's url whatever the key,
\* through _retrieve and not through _cached_retrieve, and leaves the fetch
\* cache empty; a getitem of a key the backing dict holds makes none. So the
\* count of urlopen calls grows by one with each getitem of an absent key, a
\* key without a row included, and with nothing else.
C17_TableBypassesCache ==
    [][(last'.op = "getitem") =>
          /\ lru = <<>>
          /\ lru' = <<>>
          /\ IF last'.key \notin DOMAIN data[last'.self]
             THEN /\ last'.sent
                  /\ last'.url = TableUrl
                  /\ "_retrieve" \in last'.stages
                  /\ "_cached_retrieve" \notin last'.stages
                  /\ transportCalls' = [transportCalls EXCEPT ![TableUrl] = @ + 1]
             ELSE /\ ~last'.sent
                  /\ last'.stages = {}
                  /\ transportCalls' = transportCalls]_vars

\* a key without a row was looked up in a loaded table: the second urlopen call
C17_Witness ==
    /\ Distributed
    /\ last.error.type = "KeyError"
    /\ data[last.self] # EmptyDict
    /\ transportCalls[TableUrl] = 2
    /\ lru = <<>>

-----------------------------------------------------------------------------
(* Properties of failed lookups *)

\* C18: a getitem that raises UnavailableWebResourceError or
\* InvalidWebResourceError leaves every backing dict as it was before the call:
\* no entry added, removed or changed. Such a getitem never reached post_process.
C18_FailureLeavesMap ==
    [][(/\ last'.op = "getitem"
        /\ last'.error.type \in {"UnavailableWebResourceError",
                                 "InvalidWebResourceError"}) =>
          /\ data' = data
          /\ "post_process" \notin last'.stages]_vars

\* a getitem raised InvalidWebResourceError on a map that holds another key,
\* for a url that had an urlopen call before
C18_Witness ==
    /\ IsGet
    /\ last.error.type = "InvalidWebResourceError"
    /\ data[last.self] # EmptyDict
    /\ last.key \notin DOMAIN data[last.self]
    /\ transportCalls[last.url] = 2

\* C19: when a getitem on a WebCSV or WebTSV raises KeyError because the
\* table has no row for the key, the rows it loaded stay: the backing dict
\* holds one entry for each distinct value of the key column, and a getitem of
\* any row's key returns the stored record with no stage and no urlopen call.
C19_NoRollback ==
    (Distributed /\ last.error.type = "KeyError") =>
        /\ last.key \notin KeyColumn(last.self)
        /\ DOMAIN data[last.self] = KeyColumn(last.self)
        /\ Cardinality(DOMAIN data[last.self]) = Cardinality(KeyColumn(last.self))
        /\ \A k \in KeyColumn(last.self), net \in NetOutcomes :
              /\ getitem(last.self, k, net).res = Returned(data[last.self][k])
              /\ ~getitem(last.self, k, net).sent
              /\ getitem(last.self, k, net).stages = {}
              /\ getitem(last.self, k, net).data = data[last.self]

\* the first getitem on the map raised KeyError and left three rows behind
C19_Witness ==
    /\ Distributed
    /\ last.error.type = "KeyError"
    /\ transportCalls[TableUrl] = 1
    /\ Cardinality(DOMAIN data[last.self]) = 3

\* C20: after a getitem on a caching map raised UnavailableWebResourceError,
\* the fetch cache holds no entry for its url, and a getitem on any caching map
\* that needs this url makes a new urlopen call; if that call succeeds and the
\* bytes parse, the getitem returns and the key is in the map.
C20_FailuresNotMemoized ==
    (/\ IsGet
     /\ maps[last.self].cache_enabled
     /\ last.error.type = "UnavailableWebResourceError") =>
        /\ last.url \notin CacheUrls(lru)
        /\ \A self \in MapIds :
              (/\ maps[self] # NoMap
               /\ maps[self].cache_enabled
               /\ maps[self].make_url = "lambda s: base + s"
               /\ last.key \notin DOMAIN data[self]) =>
                 LET o == getitem(self, last.key, "ok")
                 IN /\ o.url = last.url
                    /\ o.sent
                    /\ {"_cached_retrieve", "_retrieve"} \subseteq o.stages
                    /\ last.url \in CacheUrls(o.cache)
                    /\ parse_response(self, remote[last.url]).ok =>
                          /\ o.res.ok
                          /\ last.key \in DOMAIN o.data

\* a getitem on a caching map raised UnavailableWebResourceError for a key
\* whose bytes parse: the same getitem, the urlopen call now succeeding, makes
\* the second call for the url and returns
C20_Witness ==
    /\ IsGet
    /\ maps[last.self].cache_enabled
    /\ last.error.type = "UnavailableWebResourceError"
    /\ transportCalls[last.url] = 1
    /\ getitem(last.self, last.key, "ok").sent
    /\ getitem(last.self, last.key, "ok").res.ok

=============================================================================
